---- MODULE Spec2Model ----
(***************************************************************************)
(* Potential-fields reactive navigation, as written in                     *)
(* src/8-Motion_planning-1-Potential_Fields.ipynb: repulsive_force,        *)
(* attractive_force and the simulation loop of main.                       *)
(*                                                                         *)
(* Positions are points of an integer grid.  The source computes with      *)
(* floats; every comparison it makes of a Euclidean norm against a         *)
(* threshold (r < RadiusOfInfluence, norm(GoalError) > 1) is decided here  *)
(* on the squared norm, which is exact on the grid.                        *)
(*                                                                         *)
(* Python values: None is the empty tuple, a 2x1 array is <<x, y>>, the    *)
(* 2xN matrix Map is the sequence of its columns (index 1..N here, 0..N-1  *)
(* in numpy), and the list [Line2D] returned by plt.plot is the pair       *)
(* <<xdata, ydata>> of the plotted line.                                   *)
(***************************************************************************)
EXTENDS Integers, Sequences, FiniteSets, TLC

VARIABLES Map, RadiusOfInfluence, KGoal, KObstacles, nMaxSteps,
          xStart, xGoal, xRobot, GoalError, k,
          FRep, hInfluentialObstacles, FAtt, pc, status

vars == <<Map, RadiusOfInfluence, KGoal, KObstacles, nMaxSteps,
          xStart, xGoal, xRobot, GoalError, k,
          FRep, hInfluentialObstacles, FAtt, pc, status>>

(* Bounds of the explored inputs. *)
MaxCoord == 1
MaxObstacles == 1
MaxRadius == 1
MaxSteps == 1

Coord == 0..MaxCoord
Point == Coord \X Coord
Maps == UNION {[1..n -> Point] : n \in 0..MaxObstacles}
Radii == -1..MaxRadius
Gains == {-1, 2}
StepCaps == 0..MaxSteps

(* Python values *)
None == <<>>
Unbound == <<"unbound">>

VecSub(a, b) == <<a[1] - b[1], a[2] - b[2]>>
VecAdd(a, b) == <<a[1] + b[1], a[2] + b[2]>>
NormSq(v) == v[1] * v[1] + v[2] * v[2]

(* linalg.norm(v) > c, decided on the squared norm *)
NormGreater(v, c) == c < 0 \/ NormSq(v) > c * c

(* r < R for r = np.sqrt(rSq), decided on the square *)
SqrtLess(rSq, R) == R > 0 /\ rSq < R * R
SqrtLessEq(rSq, R) == R >= 0 /\ rSq <= R * R

(* q = xRobot - Map (broadcast over the columns) *)
qOf(xRobot_, Map_) == [i \in 1..Len(Map_) |-> VecSub(xRobot_, Map_[i])]

(* np.sum(q**2, axis=0): the squares of r = np.sqrt(...) *)
rSqOf(q) == [i \in 1..Len(q) |-> NormSq(q[i])]

iInfluentialLeq(rSq, R) ==
  SelectSeq([i \in 1..Len(rSq) |-> i], LAMBDA i : SqrtLessEq(rSq[i], R))

(* iInfluential = np.where(r < RadiusOfInfluence)[0] *)
iInfluential(rSq, R) ==
  SelectSeq([i \in 1..Len(rSq) |-> i], LAMBDA i : SqrtLess(rSq[i], R))

(* plt.plot(Map[0,iInfluential], Map[1,iInfluential], 'kx') *)
PlotMarkers(Map_, idx) ==
  << [j \in 1..Len(idx) |-> Map_[idx[j]][1]],
     [j \in 1..Len(idx) |-> Map_[idx[j]][2]] >>

(* repulsive_force(xRobot, Map, RadiusOfInfluence, KObstacles):            *)
(* returns <<FRep, hInfluentialObstacles>>.  Both branches leave           *)
(* FRep = None; KObstacles is not used.                                    *)
repulsive_force(xRobot_, Map_, R, K) ==
  LET q == qOf(xRobot_, Map_)
      rSq == rSqOf(q)
      idx == iInfluential(rSq, R)
  IN IF Len(idx) > 0
       THEN <<None, PlotMarkers(Map_, idx)>>
       ELSE <<None, None>>

(* attractive_force(KGoal, GoalError): FAtt = None; FAtt /= None.          *)
(* In-place division of None by None raises TypeError, so the function     *)
(* never returns.  Outcome: <<"raise", exception>> or <<"return", value>>. *)
(* Both operands are None at the only use, so the quotient of two arrays   *)
(* is never computed.                                                      *)
ITrueDiv(a, b) ==
  IF a = None \/ b = None THEN <<"raise", "TypeError">> ELSE <<"return", a>>

attractive_force(K, e) ==
  LET FAtt0 == None
  IN ITrueDiv(FAtt0, None)

WhileTestOr(e, k_, n) ==
  IF NormGreater(e, 1) \/ k_ < n THEN "continuing"
  ELSE IF ~ NormGreater(e, 1) THEN "reached" ELSE "exhausted"

WhileTestSwapped(e, k_, n) ==
  IF ~ (k_ < n) THEN "exhausted"
  ELSE IF ~ NormGreater(e, 1) THEN "reached"
  ELSE "continuing"

WhileTestValidating(e, k_, n) ==
  IF ~ NormGreater(e, 1) THEN "reached"
  ELSE IF ~ (k_ < n) \/ RadiusOfInfluence <= 0 \/ KGoal < 0 \/ KObstacles < 0
    THEN "exhausted"
  ELSE "continuing"

(* while linalg.norm(GoalError) > 1 and k < nMaxSteps:                     *)
(* `and' evaluates left to right and stops at the first false conjunct;    *)
(* the result names the conjunct that ended the loop.                      *)
WhileTest(e, k_, n) ==
  IF ~ NormGreater(e, 1) THEN "reached"
  ELSE IF ~ (k_ < n) THEN "exhausted"
  ELSE "continuing"

(* main, lines 267-293: map, start and goal chosen, xRobot = xStart,       *)
(* GoalError = xRobot - xGoal, k = 0.  FRep, hInfluentialObstacles and     *)
(* FAtt are not bound yet.  status records the outcome of the last         *)
(* evaluation of the loop condition.                                       *)
Init ==
  /\ Map \in Maps
  /\ RadiusOfInfluence \in Radii
  /\ KGoal \in Gains
  /\ KObstacles \in Gains
  /\ nMaxSteps \in StepCaps
  /\ xStart \in Point
  /\ xGoal \in Point
  /\ xRobot = xStart
  /\ GoalError = VecSub(xStart, xGoal)
  /\ k = 0
  /\ FRep = Unbound
  /\ hInfluentialObstacles = Unbound
  /\ FAtt = Unbound
  /\ pc = "while"
  /\ status = "continuing"

(* line 295: the loop condition; falling out of the loop ends main *)
While ==
  /\ pc = "while"
  /\ status' = WhileTest(GoalError, k, nMaxSteps)
  /\ pc' = IF status' = "continuing" THEN "repulsive_force" ELSE "done"
  /\ UNCHANGED <<Map, RadiusOfInfluence, KGoal, KObstacles, nMaxSteps,
                 xStart, xGoal, xRobot, GoalError, k,
                 FRep, hInfluentialObstacles, FAtt>>

(* line 297 *)
CallRepulsiveForce ==
  /\ pc = "repulsive_force"
  /\ LET res == repulsive_force(xRobot, Map, RadiusOfInfluence, KObstacles)
     IN /\ FRep' = res[1]
        /\ hInfluentialObstacles' = res[2]
  /\ pc' = "attractive_force"
  /\ UNCHANGED <<Map, RadiusOfInfluence, KGoal, KObstacles, nMaxSteps,
                 xStart, xGoal, xRobot, GoalError, k, FAtt, status>>

(* line 298: the call raises TypeError, which main does not catch: main    *)
(* ends there.  Lines 303-322 (FTotal = None, xRobot += FTotal, the        *)
(* redraw, GoalError = xRobot - xGoal, k += 1) are never executed.         *)
CallAttractiveForce ==
  /\ pc = "attractive_force"
  /\ LET res == attractive_force(KGoal, GoalError)
     IN IF res[1] = "raise"
          THEN /\ pc' = res[2]
               /\ FAtt' = FAtt
          ELSE /\ pc' = "total_force"
               /\ FAtt' = res[2]
  /\ UNCHANGED <<Map, RadiusOfInfluence, KGoal, KObstacles, nMaxSteps,
                 xStart, xGoal, xRobot, GoalError, k,
                 FRep, hInfluentialObstacles, status>>

Next == While \/ CallRepulsiveForce \/ CallAttractiveForce

Spec == Init /\ [][Next]_vars

----------------------------------------------------------------------------
(* Vocabulary of the properties *)

IsVector(v) == Len(v) = 2 /\ v[1] \in Int /\ v[2] \in Int
Terminated == pc \in {"done", "TypeError"}
InTick == pc \in {"repulsive_force", "attractive_force"}
RepReturned == pc \in {"attractive_force", "TypeError"}
DistSq(i) == NormSq(VecSub(xRobot, Map[i]))
Obstacles == 1..Len(Map)
Influential == {i \in Obstacles : RadiusOfInfluence > 0
                  /\ DistSq(i) < RadiusOfInfluence * RadiusOfInfluence}

----------------------------------------------------------------------------
(* C1: the loop ends after at most nMaxSteps ticks with status reached or  *)
(* exhausted, and no tick runs once k >= nMaxSteps.                        *)
C1_Termination ==
  /\ Terminated => status \in {"reached", "exhausted"} /\ k <= nMaxSteps
  /\ InTick => k < nMaxSteps

(* C2: a robot that starts exactly at the goal ends the loop at once, with *)
(* no tick and status reached; and whenever attractive_force is about to   *)
(* be called, the goal error it receives is the current one and is not     *)
(* zero.                                                                   *)
C2_GoalCheckFirst ==
  /\ xStart = xGoal =>
       /\ pc \in {"while", "done"}
       /\ k = 0
       /\ FRep = Unbound /\ FAtt = Unbound
       /\ pc = "done" => status = "reached"
  /\ pc = "attractive_force" =>
       /\ GoalError = VecSub(xRobot, xGoal)
       /\ NormSq(GoalError) > 0

C2_Witness ==
  /\ pc = "done" /\ xStart = xGoal /\ nMaxSteps > 0
  /\ status = "reached" /\ k = 0

C4_ZeroVector ==
  (RepReturned /\ Influential = {}) => FRep = <<0, 0>>

(* C5: the obstacles repulsive_force marks as influential are exactly      *)
(* those at distance strictly less than RadiusOfInfluence, in map order;   *)
(* an obstacle at distance exactly RadiusOfInfluence is not marked, and    *)
(* the returned force is the same as without it.                           *)
Without(s, i) == [j \in 1..(Len(s) - 1) |-> IF j < i THEN s[j] ELSE s[j + 1]]

InfluentialSeq ==
  SelectSeq([i \in 1..Len(Map) |-> i], LAMBDA i : i \in Influential)

C5_StrictCutoff ==
  RepReturned =>
    /\ Influential = {} <=> hInfluentialObstacles = None
    /\ Influential # {} =>
         /\ Len(hInfluentialObstacles) = 2
         /\ Len(hInfluentialObstacles[1]) = Cardinality(Influential)
         /\ Len(hInfluentialObstacles[2]) = Cardinality(Influential)
         /\ \A j \in 1..Cardinality(Influential) :
              <<hInfluentialObstacles[1][j], hInfluentialObstacles[2][j]>>
                = Map[InfluentialSeq[j]]
    /\ \A i \in Obstacles :
         DistSq(i) = RadiusOfInfluence * RadiusOfInfluence =>
           LET res == repulsive_force(xRobot, Without(Map, i),
                                      RadiusOfInfluence, KObstacles)
           IN /\ res[1] = FRep
              /\ res[2] = hInfluentialObstacles

C5_Witness ==
  /\ RepReturned
  /\ RadiusOfInfluence > 0
  /\ \E i \in Obstacles : DistSq(i) = RadiusOfInfluence * RadiusOfInfluence
  /\ hInfluentialObstacles = None

(* C6: with every obstacle at a distance r_i > 0, the returned force is    *)
(* the sum over the influential obstacles of                               *)
(*   KObstacles * (1/r_i - 1/R) * (1/r_i^2) * (q_i / r_i)                  *)
(*     = KObstacles * (R - r_i) * q_i / (R * r_i^4),   q_i = xRobot - o_i. *)
(* Stated for the cases where every influential r_i is a whole number,     *)
(* as the equation  FRep * D = sum of the numerators over the common       *)
(* denominator D = R * product of r_i^4.                                   *)
ISqrt(n) == CHOOSE s \in 0..n : s * s <= n /\ (s + 1) * (s + 1) > n
IsSquare(n) == ISqrt(n) * ISqrt(n) = n
Pow4(n) == n * n * n * n

RECURSIVE ProdPow4(_)
ProdPow4(S) ==
  IF S = {} THEN 1
  ELSE LET i == CHOOSE x \in S : TRUE
       IN Pow4(ISqrt(DistSq(i))) * ProdPow4(S \ {i})

RECURSIVE SumNumerators(_, _)
SumNumerators(S, D) ==
  IF S = {} THEN <<0, 0>>
  ELSE LET i == CHOOSE x \in S : TRUE
           r == ISqrt(DistSq(i))
           c == KObstacles * (RadiusOfInfluence - r)
                  * (D \div (RadiusOfInfluence * Pow4(r)))
           q == VecSub(xRobot, Map[i])
       IN VecAdd(<<c * q[1], c * q[2]>>, SumNumerators(S \ {i}, D))

C6_RepulsiveSum ==
  ( /\ RepReturned
    /\ \A i \in Obstacles : DistSq(i) > 0
    /\ \A i \in Influential : IsSquare(DistSq(i)) )
  =>
  LET D == RadiusOfInfluence * ProdPow4(Influential)
  IN /\ IsVector(FRep)
     /\ Influential # {} =>
          <<FRep[1] * D, FRep[2] * D>> = SumNumerators(Influential, D)
     /\ Influential = {} => FRep = <<0, 0>>

(* C7: called with a non-zero goal error, attractive_force returns         *)
(* -KGoal * error / ||error||: a vector parallel to the error, pointing    *)
(* against it, of magnitude |KGoal|.                                       *)
IsAttractive(F, K, e) ==
  /\ IsVector(F)
  /\ F[1] * e[2] = F[2] * e[1]
  /\ K * (F[1] * e[1] + F[2] * e[2]) <= 0
  /\ NormSq(F) = K * K

C7_Attractive ==
  [][(pc = "attractive_force" /\ NormSq(GoalError) > 0)
       => (pc' # "TypeError" /\ IsAttractive(FAtt', KGoal, GoalError))]_vars

(* C8: when the robot stands exactly on an obstacle, repulsive_force       *)
(* either fails or returns a finite force vector; it does not return an    *)
(* undefined force.                                                        *)
C8_CoincidentObstacle ==
  (pc = "attractive_force" /\ \E i \in Obstacles : DistSq(i) = 0)
    => IsVector(FRep)

(* C9 as stated: a tick only executes under a valid configuration. *)
C9_Original ==
  InTick => RadiusOfInfluence > 0 /\ KGoal >= 0 /\ KObstacles >= 0

(* C9 as amended: no configuration is rejected; whether a tick executes    *)
(* depends only on the goal distance and the step count, whatever          *)
(* RadiusOfInfluence, KGoal and KObstacles are.                            *)
C9_NoValidation ==
  /\ pc = "done" => ~ (NormSq(GoalError) > 1 /\ k < nMaxSteps)
  /\ (InTick \/ pc = "TypeError") => (NormSq(GoalError) > 1 /\ k < nMaxSteps)

C9_Witness ==
  /\ pc = "attractive_force"
  /\ RadiusOfInfluence <= 0 /\ KGoal < 0 /\ KObstacles < 0

(* C10: a tick adds FAtt + FRep, computed at the current position, to the  *)
(* robot position, recomputes the goal error from the new position and     *)
(* increases k by one.                                                     *)
C10_PositionUpdate ==
  [][pc = "attractive_force" =>
       /\ IsVector(FRep) /\ IsVector(FAtt')
       /\ xRobot' = VecAdd(xRobot, VecAdd(FAtt', FRep))
       /\ GoalError' = VecSub(xRobot', xGoal)
       /\ k' = k + 1
       /\ pc' = "while"]_vars
====
